---- MODULE Spec2Model ----
(***************************************************************************)
(* Model of the wildfire backend's verification and streaming engine:      *)
(*   - hotspot_verifier.py : HotspotVerifier.verify_hotspot and            *)
(*     verify_all_hotspots (batch classification of thermal hotspots);     *)
(*   - services/yolo_service.py : FireSmokeDetector.detect_video_stream    *)
(*     (the frame-by-frame generator);                                     *)
(*   - app.py : detect_fire_smoke_stream.event_generator (the SSE          *)
(*     transport that consumes the generator).                             *)
(*                                                                         *)
(* Numbers.  Detector confidences are floats in 0..1 in the program; here  *)
(* a confidence is an integer number of hundredths (60 stands for 0.60).   *)
(* Every quotient the program computes in floating point is kept as an     *)
(* exact fraction [num, den]; floating-point rounding is not modelled.     *)
(***************************************************************************)
EXTENDS Integers, Sequences, FiniteSets, TLC

\* ------------------------------------------------------------------ bounds
\* Longest batch of hotspots handed to verify_all_hotspots.
MaxHotspots == 2
\* Most Results objects one detector call returns.
MaxResults == 1
\* Most boxes one detector call on satellite imagery returns.
MaxBoxes == 2
\* Most boxes one detector call on a video frame returns.
MaxFrameBoxes == 1
\* Most frames a video can deliver.
MaxFrames == 3

\* ------------------------------------------------------------- fractions
Rat(n, d) == [num |-> n, den |-> d]
\* a/b = c/d and a/b <= c/d for fractions with positive denominators
RatEq(a, b) == a.num * b.den = b.num * a.den
RatLeq(a, b) == a.num * b.den <= b.num * a.den
RatTimes(a, k) == Rat(a.num * k, a.den)

SeqsUpTo(S, n) == UNION {[1..k -> S] : k \in 0..n}

\* ------------------------------------------------------------ the detector
\* A box as the detector reports it: class id and confidence (hundredths).
Boxes == {[cls |-> 0, conf |-> 60], [cls |-> 1, conf |-> 45]}

RECURSIVE TotalBoxes(_)
TotalBoxes(results) ==
    IF results = <<>> THEN 0
    ELSE Len(Head(results)) + TotalBoxes(Tail(results))

\* What one call of the YOLO model can return: a list of Results, each with
\* its list of boxes.
DetectorOutputs(maxResults, maxBoxes) ==
    {rs \in SeqsUpTo(SeqsUpTo(Boxes, maxBoxes), maxResults) :
        TotalBoxes(rs) <= maxBoxes}

\* ---------------------------------------------------- hotspot_verifier.py
None == "None"
Image == "image"

Confidences == {79, 80}
Frps == {19, 20}
\* A hotspot dict of the input list (lat and lon only feed the imagery
\* fetch, which ignores them, and are left out).
HotspotInputs == [confidence : Confidences, frp : Frps]

\* _fetch_satellite_imagery: the shipped placeholder returns None; with the
\* method replaced by an imagery collaborator it returns an image or None.
fetch_satellite_imagery_implemented(source) == {None, Image}
fetch_satellite_imagery(source) ==
    IF source = "placeholder" THEN {None} ELSE {None, Image}

\* for r in results: for box in r.boxes: detections.append({...})
RECURSIVE VerifierDetections(_)
VerifierDetections(results) ==
    IF results = <<>> THEN <<>>
    ELSE [k \in 1..Len(Head(results)) |-> [confidence |-> Head(results)[k].conf]]
         \o VerifierDetections(Tail(results))

RECURSIVE SumConfidence(_)
SumConfidence(detections) ==
    IF detections = <<>> THEN 0
    ELSE Head(detections).confidence + SumConfidence(Tail(detections))

\* avg_confidence = sum(d['confidence']) / len(detections) if detections else 0
\* (a fraction of 1: the confidences are hundredths)
AvgConfidence(detections) ==
    IF detections # <<>>
    THEN Rat(SumConfidence(detections), 100 * Len(detections))
    ELSE Rat(0, 1)

\* _detect_fire_in_imagery, given what self.yolo_model(image, ...) returned
detect_fire_in_imagery(results) ==
    LET detections == VerifierDetections(results)
    IN  [has_fire |-> Len(detections) > 0,
         confidence |-> AvgConfidence(detections),
         detections |-> detections]

\* The no-imagery result of verify_hotspot.
ThermalOnlyBuggy(confidence, frp) ==
    [is_verified |-> confidence >= 80 /\ frp >= 20,
     thermal_confidence |-> confidence,
     visual_confidence |-> Rat(0, 1),
     verification_method |-> "thermal_only",
     status |-> IF confidence >= 80 /\ frp >= 20
                THEN "verified_wildfire" ELSE "unverified_no_imagery"]
ThermalOnly(confidence, frp) ==
    [is_verified |-> confidence >= 80 /\ frp >= 20,
     thermal_confidence |-> confidence,
     visual_confidence |-> Rat(0, 1),
     verification_method |-> "thermal_only",
     status |-> "unverified_no_imagery"]

\* The result of verify_hotspot once the detector has looked at the imagery.
VisualDecisionBuggy(visual_result, confidence) ==
    IF visual_result.has_fire /\ confidence >= 80
    THEN [is_verified |-> TRUE,
          thermal_confidence |-> confidence,
          visual_confidence |-> RatTimes(visual_result.confidence, 100),
          verification_method |-> "thermal_and_visual",
          status |-> "verified_wildfire"]
    ELSE [is_verified |-> FALSE,
          thermal_confidence |-> confidence,
          visual_confidence |-> Rat(0, 1),
          verification_method |-> "visual_rejected",
          status |-> "false_alarm_rejected"]
VisualDecision(visual_result, confidence) ==
    IF visual_result.has_fire
    THEN [is_verified |-> TRUE,
          thermal_confidence |-> confidence,
          visual_confidence |-> RatTimes(visual_result.confidence, 100),
          verification_method |-> "thermal_and_visual",
          status |-> "verified_wildfire"]
    ELSE [is_verified |-> FALSE,
          thermal_confidence |-> confidence,
          visual_confidence |-> Rat(0, 1),
          verification_method |-> "visual_rejected",
          status |-> "false_alarm_rejected"]

\* verify_hotspot, given what the imagery fetch and the detector returned
verify_hotspot(imagery, results, confidence, frp) ==
    IF imagery = None
    THEN ThermalOnly(confidence, frp)
    ELSE VisualDecision(detect_fire_in_imagery(results), confidence)

VARIABLES
    imagerySource,   \* "placeholder" (the shipped fetch) or "collaborator"
    hotspots,        \* the input list: the hotspot dicts, by position
    vpc,             \* verify_all_hotspots: "idle", "loop", "returned", "raised"
    vi,              \* position of the next hotspot of the for loop
    verified_fires,  \* the three output lists: positions of the input list
    false_alarms,
    unverified,
    stats,           \* the stats dict, once returned
    imageryLog,      \* per hotspot verified so far: what the fetch returned
    detectorLog      \* per hotspot verified so far: what the detector returned

verifierVars == <<imagerySource, hotspots, vpc, vi, verified_fires, false_alarms,
                  unverified, stats, imageryLog, detectorLog>>

VARIABLES
    media,         \* the uploaded file
    gpc,           \* detect_video_stream: where the generator stands
    cap,           \* the decode session: "none", "open", "released"
    total_frames,  \* the generator's locals
    frame_number,
    yielded,       \* <<result>> while a yielded result waits to be taken
    produced,      \* every result the generator has yielded so far
    frameLog,      \* per detector call of the stream: what it returned
    epc,           \* event_generator: where the async generator stands
    events         \* the SSE records the client has received so far

streamVars == <<media, gpc, cap, total_frames, frame_number, yielded, produced,
                frameLog, epc, events>>

VARIABLES
    MIN_CONFIDENCE,  \* the thresholds imported from config
    MIN_FRP,
    fpc,             \* "idle", "ready", "filtered", "refiltered"
    df,              \* the DataFrame handed to filter_fire_events
    alerts,          \* what filter_fire_events(df) returned
    again            \* what filter_fire_events returned for its own output

filterVars == <<MIN_CONFIDENCE, MIN_FRP, fpc, df, alerts, again>>

vars == <<verifierVars, streamVars, filterVars>>

NoStats == [total_hotspots |-> 0]

\* What is remembered of one detector call: whether it was made and how it
\* ended, the number of boxes it returned and the sum of their confidences.
RECURSIVE TotalConf(_)
TotalConf(results) ==
    IF results = <<>> THEN 0
    ELSE LET SumBoxes[k \in 0..Len(Head(results))] ==
                 IF k = 0 THEN 0 ELSE SumBoxes[k - 1] + Head(results)[k].conf
         IN  SumBoxes[Len(Head(results))] + TotalConf(Tail(results))
NotCalled == [outcome |-> "not_called", boxes |-> 0, conf_sum |-> 0]
Returned(results) == [outcome |-> "returned", boxes |-> TotalBoxes(results),
                      conf_sum |-> TotalConf(results)]
Raised == [outcome |-> "raised", boxes |-> 0, conf_sum |-> 0]

VerifierIdle ==
    /\ imagerySource = "placeholder"
    /\ hotspots = <<>>
    /\ vpc = "idle"
    /\ vi = 1
    /\ verified_fires = <<>>
    /\ false_alarms = <<>>
    /\ unverified = <<>>
    /\ stats = NoStats
    /\ imageryLog = <<>>
    /\ detectorLog = <<>>

\* verify_all_hotspots is entered with a list of hotspot dicts (lines 163-169).
VerifierInit ==
    /\ imagerySource = "collaborator"
    /\ hotspots \in SeqsUpTo(HotspotInputs, MaxHotspots)
    /\ vpc = "loop"
    /\ vi = 1
    /\ verified_fires = <<>>
    /\ false_alarms = <<>>
    /\ unverified = <<>>
    /\ stats = NoStats
    /\ imageryLog = <<>>
    /\ detectorLog = <<>>

\* The list a hotspot is appended to, by the status of its result.
CategorizeNoElse(result) ==
    IF result.status = "verified_wildfire" THEN "verified_fires"
    ELSE IF result.status = "false_alarm_rejected" THEN "false_alarms"
    ELSE IF result.status = "unverified" THEN "unverified"
    ELSE "dropped"
Categorize(result) ==
    IF result.status = "verified_wildfire" THEN "verified_fires"
    ELSE IF result.status = "false_alarm_rejected" THEN "false_alarms"
    ELSE "unverified"

\* list.append(hotspot): the hotspot goes to the end of the list.
ListInsertFront(list, i) == <<i>> \o list
ListAppend(list, i) == Append(list, i)

\* One pass of the for loop whose verify_hotspot call returns.
VerifyHotspot ==
    /\ vpc = "loop"
    /\ vi <= Len(hotspots)
    /\ \E imagery \in fetch_satellite_imagery(imagerySource) :
       \E results \in IF imagery = None THEN {<<>>}
                      ELSE DetectorOutputs(MaxResults, MaxBoxes) :
          LET hotspot == hotspots[vi]
              result == verify_hotspot(imagery, results,
                                       hotspot.confidence, hotspot.frp)
              list == Categorize(result)
          IN  /\ hotspots' = [hotspots EXCEPT
                                ![vi] = [confidence |-> hotspot.confidence,
                                         frp |-> hotspot.frp,
                                         verification |-> result]]
              /\ verified_fires' = IF list = "verified_fires"
                                   THEN ListAppend(verified_fires, vi)
                                   ELSE verified_fires
              /\ false_alarms' = IF list = "false_alarms"
                                 THEN ListAppend(false_alarms, vi)
                                 ELSE false_alarms
              /\ unverified' = IF list = "unverified"
                               THEN ListAppend(unverified, vi)
                               ELSE unverified
              /\ imageryLog' = Append(imageryLog, imagery)
              /\ detectorLog' = Append(detectorLog,
                                        IF imagery = None THEN NotCalled
                                        ELSE Returned(results))
    /\ vi' = vi + 1
    /\ UNCHANGED <<streamVars, filterVars, imagerySource, vpc, stats>>

\* One pass of the for loop in which the detector call raises: nothing
\* catches it, and verify_all_hotspots ends with the exception.
VerifyHotspotRaises ==
    /\ vpc = "loop"
    /\ vi <= Len(hotspots)
    /\ Image \in fetch_satellite_imagery(imagerySource)
    /\ vpc' = "raised"
    /\ imageryLog' = Append(imageryLog, Image)
    /\ detectorLog' = Append(detectorLog, Raised)
    /\ UNCHANGED <<streamVars, filterVars, imagerySource, hotspots, vi, verified_fires, false_alarms,
                   unverified, stats>>

\* 'verification_rate':
\*     len(verified_fires) / len(hotspots) * 100 if hotspots else 0
VerificationRateOfDecided(nVerified, nFalse, nTotal) ==
    IF nTotal # 0
    THEN RatTimes(Rat(nVerified, nVerified + nFalse), 100)
    ELSE Rat(0, 1)
VerificationRate(nVerified, nFalse, nTotal) ==
    IF nTotal # 0
    THEN RatTimes(Rat(nVerified, nTotal), 100)
    ELSE Rat(0, 1)

\* The loop is over: the stats are computed and the lists returned.
VerifyReturn ==
    /\ vpc = "loop"
    /\ vi > Len(hotspots)
    /\ stats' = [total_hotspots |-> Len(hotspots),
                 verified_fires |-> Len(verified_fires),
                 false_alarms_rejected |-> Len(false_alarms),
                 unverified |-> Len(unverified),
                 verification_rate |->
                     VerificationRate(Len(verified_fires), Len(false_alarms),
                                      Len(hotspots))]
    /\ vpc' = "returned"
    /\ UNCHANGED <<streamVars, filterVars, imagerySource, hotspots, vi, verified_fires, false_alarms,
                   unverified, imageryLog, detectorLog>>

\* ------------------------------------- services/yolo_service.py and app.py
\* The uploaded file, as the stream sees it:
\*   file_ext    the lower-cased extension of its path;
\*   opened      cap.isOpened() once cv2.VideoCapture(path) is built;
\*   frame_count what cap.get(CAP_PROP_FRAME_COUNT) reports (container
\*               metadata: it need not be the number of frames that decode);
\*   frames      the number of cap.read() calls that return ret = True;
\*   corrupt     the read that ends the loop failed on a frame the file still
\*               holds (a decode failure), instead of at the end of the file.
video_extensions == {".mp4", ".avi", ".mov", ".mkv", ".flv", ".wmv"}

Medias ==
    {[file_ext |-> ".jpg", opened |-> FALSE, frame_count |-> 0, frames |-> 0,
      corrupt |-> FALSE],
     [file_ext |-> ".mp4", opened |-> FALSE, frame_count |-> 0, frames |-> 0,
      corrupt |-> FALSE]}
    \cup [file_ext : {".mp4"}, opened : {TRUE},
          frame_count : 0..(MaxFrames + 1), frames : 0..MaxFrames,
          corrupt : BOOLEAN]


StreamIdle ==
    /\ media = [file_ext |-> ".jpg", opened |-> FALSE, frame_count |-> 0,
                frames |-> 0, corrupt |-> FALSE]
    /\ gpc = "unstarted"
    /\ cap = "none"
    /\ total_frames = 0
    /\ frame_number = 0
    /\ yielded = <<>>
    /\ produced = <<>>
    /\ frameLog = <<>>
    /\ epc = "idle"
    /\ events = <<>>

\* The endpoint has stored the upload and built event_generator() and the
\* StreamingResponse; nothing of either generator has run yet.
StreamInit ==
    /\ media \in Medias
    /\ gpc = "unstarted"
    /\ cap = "none"
    /\ total_frames = 0
    /\ frame_number = 0
    /\ yielded = <<>>
    /\ produced = <<>>
    /\ frameLog = <<>>
    /\ epc = "unstarted"
    /\ events = <<>>

\* for r in results: for box in r.boxes: detections.append({...})
RECURSIVE StreamDetections(_)
StreamDetections(results) ==
    IF results = <<>> THEN <<>>
    ELSE [k \in 1..Len(Head(results)) |->
             [class |-> Head(results)[k].cls, confidence |-> Head(results)[k].conf]]
         \o StreamDetections(Tail(results))

\* The dict yielded for a file that is not a video (lines 37-42).
ImageResult(results) ==
    LET detections == StreamDetections(results)
    IN  [frame |-> 0,
         total_frames |-> 1,
         detections |-> detections,
         has_fire |-> Len(detections) > 0]

\* "progress": (frame_number / total_frames) * 100 if total_frames > 0 else 100
Progress(fn, tf) ==
    IF tf > 0 THEN Rat(fn * 100, tf) ELSE Rat(100, 1)

\* The dict yielded for one frame of a video (lines 71-77).
FrameResultStale(fn, tf, results) ==
    LET detections == StreamDetections(results)
    IN  [frame |-> fn - 1,
         total_frames |-> tf,
         detections |-> detections,
         has_fire |-> Len(detections) > 0,
         progress |-> Progress(fn, tf)]
FrameResult(fn, tf, results) ==
    LET detections == StreamDetections(results)
    IN  [frame |-> fn,
         total_frames |-> tf,
         detections |-> detections,
         has_fire |-> Len(detections) > 0,
         progress |-> Progress(fn, tf)]

\* Where the generator stands once it has yielded a frame's result: it is
\* suspended at the yield of line 71 until the next next().
AfterFrameYieldBuffering == "loop"
AfterFrameYield == "yield_frame"

\* First next(), file not a video: self.detect(path) returns and the single
\* result is yielded (lines 31-42).
StartImage ==
    /\ epc = "next"
    /\ gpc = "unstarted"
    /\ media.file_ext \notin video_extensions
    /\ \E results \in DetectorOutputs(MaxResults, MaxFrameBoxes) :
          /\ yielded' = <<ImageResult(results)>>
          /\ produced' = Append(produced, ImageResult(results))
          /\ frameLog' = Append(frameLog, Returned(results))
    /\ gpc' = "yield_image"
    /\ UNCHANGED <<verifierVars, filterVars, media, cap, total_frames, frame_number, epc, events>>

\* First next(), file not a video: self.detect(path) raises.
StartImageRaises ==
    /\ epc = "next"
    /\ gpc = "unstarted"
    /\ media.file_ext \notin video_extensions
    /\ frameLog' = Append(frameLog, Raised)
    /\ gpc' = "raised"
    /\ UNCHANGED <<verifierVars, filterVars, media, cap, total_frames, frame_number, yielded, produced,
                   epc, events>>

\* First next(), video: the capture is built and the frame count probed
\* (lines 46-48).
StartVideo ==
    /\ epc = "next"
    /\ gpc = "unstarted"
    /\ media.file_ext \in video_extensions
    /\ cap' = "open"
    /\ total_frames' = media.frame_count
    /\ frame_number' = 0
    /\ gpc' = "loop"
    /\ UNCHANGED <<verifierVars, filterVars, media, yielded, produced, frameLog, epc, events>>

\* while cap.isOpened(): ret, frame = cap.read() with ret true:
\* frame_number += 1 (lines 50-55).
ReadFrame ==
    /\ gpc = "loop"
    /\ media.opened
    /\ frame_number < media.frames
    /\ frame_number' = frame_number + 1
    /\ gpc' = "frame"
    /\ UNCHANGED <<verifierVars, filterVars, media, cap, total_frames, yielded, produced, frameLog, epc,
                   events>>

\* The loop ends, by cap.isOpened() being false or by `if not ret: break`;
\* cap.release() runs and the generator is exhausted (lines 50-53, 81).
ReadEnds ==
    /\ gpc = "loop"
    /\ ~media.opened \/ frame_number >= media.frames
    /\ cap' = "released"
    /\ gpc' = "finished"
    /\ UNCHANGED <<verifierVars, filterVars, media, total_frames, frame_number, yielded, produced,
                   frameLog, epc, events>>

\* self.model(frame, ...) returns and the frame's result is yielded
\* (lines 58-77).
DetectFrame ==
    /\ gpc = "frame"
    /\ \E results \in DetectorOutputs(MaxResults, MaxFrameBoxes) :
          /\ yielded' = <<FrameResult(frame_number, total_frames, results)>>
          /\ produced' = Append(produced,
                                FrameResult(frame_number, total_frames, results))
          /\ frameLog' = Append(frameLog, Returned(results))
    /\ gpc' = AfterFrameYield
    /\ UNCHANGED <<verifierVars, filterVars, media, cap, total_frames, frame_number, epc, events>>

\* self.model(frame, ...) raises: the exception leaves the generator, which
\* is finished; no statement of it runs again (line 58).
DetectFrameRaises ==
    /\ gpc = "frame"
    /\ frameLog' = Append(frameLog, Raised)
    /\ gpc' = "raised"
    /\ UNCHANGED <<verifierVars, filterVars, media, cap, total_frames, frame_number, yielded, produced,
                   epc, events>>

\* json.dumps(...) wrapped as one server-sent event.
Event(payload) == [data |-> payload]
DoneEvent == Event([done |-> TRUE])
ErrorEvent == Event([error |-> "detector failed"])
IsDone(e) == "done" \in DOMAIN e.data
IsError(e) == "error" \in DOMAIN e.data
IsTerminal(e) == IsDone(e) \/ IsError(e)
IsFrame(e) == "frame" \in DOMAIN e.data

\* What the except clause of event_generator sends (lines 61-63).
ExceptEventsThenDone == <<ErrorEvent, DoneEvent>>
ExceptEvents == <<ErrorEvent>>

\* The generator resumed by next() from a yield: the image branch returns
\* (line 43), the video branch goes round the loop (line 50).
Resume(pc) ==
    IF pc = "yield_image" THEN "finished"
    ELSE IF pc = "yield_frame" THEN "loop"
    ELSE pc

\* The client asks for the next event (the response body is iterated):
\* the async generator starts, or resumes after its last yield.
ClientPull ==
    /\ epc \in {"unstarted", "yield_event", "yield_done", "yield_error"}
    /\ epc' = IF epc = "unstarted" THEN "next"
              ELSE IF epc = "yield_event" THEN "sleep"
              ELSE "finished"
    /\ UNCHANGED <<verifierVars, filterVars, media, gpc, cap, total_frames, frame_number, yielded,
                   produced, frameLog, events>>

\* await asyncio.sleep(0.01) is over; the for loop calls next() (lines 57, 51).
SleepDone ==
    /\ epc = "sleep"
    /\ epc' = "next"
    /\ gpc' = Resume(gpc)
    /\ UNCHANGED <<verifierVars, filterVars, media, cap, total_frames, frame_number, yielded, produced,
                   frameLog, events>>

\* The for loop got a result: it is sent as an event (lines 53-54).
EmitEvent ==
    /\ epc = "next"
    /\ yielded # <<>>
    /\ events' = Append(events, Event(yielded[1]))
    /\ yielded' = <<>>
    /\ epc' = "yield_event"
    /\ UNCHANGED <<verifierVars, filterVars, media, gpc, cap, total_frames, frame_number, produced,
                   frameLog>>

\* The for loop ended: the completion event is sent (line 60).
EmitDone ==
    /\ epc = "next"
    /\ yielded = <<>>
    /\ gpc = "finished"
    /\ events' = Append(events, DoneEvent)
    /\ epc' = "yield_done"
    /\ UNCHANGED <<verifierVars, filterVars, media, gpc, cap, total_frames, frame_number, yielded,
                   produced, frameLog>>

\* next() raised: the except clause sends the error event (lines 61-63).
EmitError ==
    /\ epc = "next"
    /\ yielded = <<>>
    /\ gpc = "raised"
    /\ events' = events \o ExceptEvents
    /\ epc' = "yield_error"
    /\ UNCHANGED <<verifierVars, filterVars, media, gpc, cap, total_frames, frame_number, yielded,
                   produced, frameLog>>

\* The client goes away while event_generator is suspended: the async
\* generator is closed, and with it the generator it iterates, which gets
\* GeneratorExit at its yield.  detect_video_stream has no try/finally, so
\* none of its statements runs.
ClientDisconnect ==
    /\ epc \in {"yield_event", "sleep"}
    /\ epc' = "cancelled"
    /\ gpc' = IF gpc \in {"yield_frame", "yield_image"} THEN "closed" ELSE gpc
    /\ UNCHANGED <<verifierVars, filterVars, media, cap, total_frames, frame_number, yielded, produced,
                   frameLog, events>>

\* -------------------------------------------------------- alert_engine.py
\* Most rows of the DataFrame handed to filter_fire_events.
MaxRows == 2

\* The values tried for config.MIN_CONFIDENCE and config.MIN_FRP.
MinConfidences == {50, 80}
MinFrps == {10, 30}

\* The rows of the FIRMS DataFrame.
FirmsColumns == {"latitude", "longitude", "confidence", "frp", "acq_date",
                 "acq_time"}
FirmsRows == [latitude : {10, 11}, longitude : {77}, confidence : {50, 80},
              frp : {10, 30}, acq_date : {"2024-01-01"}, acq_time : {1200}]

\* A DataFrame: its columns and its rows in index order.
DataFrame(columns, rows) == [columns |-> columns, rows |-> rows]

\* pd.DataFrame(records) of a list of dicts: the columns are the dicts' keys,
\* and an empty list gives a frame without columns.
DataFrameOf(records) ==
    DataFrame(UNION {DOMAIN records[k] : k \in 1..Len(records)}, records)

\* (df["confidence"] >= MIN_CONFIDENCE) & (df["frp"] >= MIN_FRP), for one row
KeepsStrictly(row, minConfidence, minFrp) ==
    row.confidence > minConfidence /\ row.frp > minFrp
KeepsEither(row, minConfidence, minFrp) ==
    row.confidence >= minConfidence \/ row.frp >= minFrp
Keeps(row, minConfidence, minFrp) ==
    row.confidence >= minConfidence /\ row.frp >= minFrp

\* df[mask]: the rows the mask keeps, in index order
RECURSIVE Filtered(_, _, _)
Filtered(rows, minConfidence, minFrp) ==
    IF rows = <<>> THEN <<>>
    ELSE (IF Keeps(Head(rows), minConfidence, minFrp) THEN <<Head(rows)>>
          ELSE <<>>) \o Filtered(Tail(rows), minConfidence, minFrp)

\* The dict appended to alerts for one row (lines 11-18).
Alert(row) ==
    [lat |-> row.latitude,
     lon |-> row.longitude,
     confidence |-> row.confidence,
     frp |-> row.frp,
     date |-> row.acq_date,
     time |-> row.acq_time]

\* What a call ends with: the list it returns, or the KeyError of a column
\* the frame does not have.
ReturnedAlerts(list) == [error |-> "none", alerts |-> list]
KeyError == [error |-> "KeyError", alerts |-> <<>>]
NoCall == [error |-> "not called", alerts |-> <<>>]

\* filter_fire_events(df)
filter_fire_events(frame, minConfidence, minFrp) ==
    IF ~({"confidence", "frp"} \subseteq frame.columns) THEN KeyError
    ELSE LET filtered == Filtered(frame.rows, minConfidence, minFrp)
         IN  IF filtered # <<>> /\ ~({"latitude", "longitude", "acq_date",
                                     "acq_time"} \subseteq frame.columns)
             THEN KeyError
             ELSE ReturnedAlerts([k \in 1..Len(filtered) |-> Alert(filtered[k])])

FilterIdle ==
    /\ MIN_CONFIDENCE = 0
    /\ MIN_FRP = 0
    /\ fpc = "idle"
    /\ df = DataFrame({}, <<>>)
    /\ alerts = NoCall
    /\ again = NoCall

\* config is imported and a FIRMS DataFrame is at hand.
FilterInit ==
    /\ MIN_CONFIDENCE \in MinConfidences
    /\ MIN_FRP \in MinFrps
    /\ fpc = "ready"
    /\ df \in {DataFrame(FirmsColumns, rows) : rows \in SeqsUpTo(FirmsRows, MaxRows)}
    /\ alerts = NoCall
    /\ again = NoCall

\* alerts = filter_fire_events(df)
FilterFireEvents ==
    /\ fpc = "ready"
    /\ alerts' = filter_fire_events(df, MIN_CONFIDENCE, MIN_FRP)
    /\ fpc' = "filtered"
    /\ UNCHANGED <<verifierVars, streamVars, MIN_CONFIDENCE, MIN_FRP, df, again>>

\* filter_fire_events applied to what it returned, taken as a DataFrame
FilterAgain ==
    /\ fpc = "filtered"
    /\ alerts.error = "none"
    /\ again' = filter_fire_events(DataFrameOf(alerts.alerts),
                                   MIN_CONFIDENCE, MIN_FRP)
    /\ fpc' = "refiltered"
    /\ UNCHANGED <<verifierVars, streamVars, MIN_CONFIDENCE, MIN_FRP, df, alerts>>

StreamNext ==
    \/ StartImage
    \/ StartImageRaises
    \/ StartVideo
    \/ ReadFrame
    \/ ReadEnds
    \/ DetectFrame
    \/ DetectFrameRaises
    \/ ClientPull
    \/ SleepDone
    \/ EmitEvent
    \/ EmitDone
    \/ EmitError
    \/ ClientDisconnect

VerifierNext ==
    \/ VerifyHotspot
    \/ VerifyHotspotRaises
    \/ VerifyReturn

Init == VerifierIdle /\ StreamInit /\ FilterIdle
Next == StreamNext

\* The streaming endpoint serving one upload.
Spec == Init /\ [][Next]_vars

\* verify_all_hotspots running on one batch.
InitVerifier == VerifierInit /\ StreamIdle /\ FilterIdle
SpecVerifier == InitVerifier /\ [][VerifierNext]_vars

FilterNext ==
    \/ FilterFireEvents
    \/ FilterAgain

\* Longest batch handed to verify_all_hotspots as shipped.
MaxShippedHotspots == 3

\* verify_all_hotspots as shipped is entered with a list of hotspot dicts:
\* the imagery fetch is the placeholder of lines 93-114.
ShippedInit ==
    /\ imagerySource = "placeholder"
    /\ hotspots \in SeqsUpTo(HotspotInputs, MaxShippedHotspots)
    /\ vpc = "loop"
    /\ vi = 1
    /\ verified_fires = <<>>
    /\ false_alarms = <<>>
    /\ unverified = <<>>
    /\ stats = NoStats
    /\ imageryLog = <<>>
    /\ detectorLog = <<>>

\* The steps of verify_all_hotspots as shipped; VerifyHotspotRaises needs a
\* fetched image and is never enabled (part of C17's formula).
ShippedNext ==
    \/ VerifyHotspot
    \/ VerifyReturn

\* verify_all_hotspots as shipped, running on one batch.
InitShipped == ShippedInit /\ StreamIdle /\ FilterIdle
SpecShipped == InitShipped /\ [][ShippedNext]_vars

\* filter_fire_events running on one DataFrame.
InitFilter == VerifierIdle /\ StreamIdle /\ FilterInit
SpecFilter == InitFilter /\ [][FilterNext]_vars

\* ------------------------------------------------------------- the claims
Positions(list) == {list[k] : k \in 1..Len(list)}
Occurrences(list, i) == Cardinality({k \in 1..Len(list) : list[k] = i})

\* C1. Once verify_all_hotspots has returned, every hotspot of the input
\* list is in exactly one of verified_fires, false_alarms and unverified:
\* the three lists are pairwise disjoint, hold nothing but input hotspots,
\* and none is lost or listed twice.
C1_OutputListsPartitionInput ==
    vpc = "returned" =>
        LET all == verified_fires \o false_alarms \o unverified
        IN  /\ Positions(all) \subseteq 1..Len(hotspots)
            /\ \A i \in 1..Len(hotspots) : Occurrences(all, i) = 1

C1_Witness ==
    /\ vpc = "returned"
    /\ Len(hotspots) >= 2
    /\ verified_fires # <<>>
    /\ unverified # <<>>

\* C2. A hotspot for which the imagery fetch returned None gets the result
\* is_verified = (confidence >= 80 and frp >= 20), visual_confidence = 0,
\* method thermal_only, status unverified_no_imagery, and is appended to
\* unverified and to no other list, whatever is_verified is.
C2_NoImageryIsUnverified ==
    \A i \in 1..Len(imageryLog) :
        imageryLog[i] = None =>
            LET v == hotspots[i].verification
            IN  /\ v.is_verified
                     = (hotspots[i].confidence >= 80 /\ hotspots[i].frp >= 20)
                /\ v.thermal_confidence = hotspots[i].confidence
                /\ v.visual_confidence.num = 0
                /\ v.verification_method = "thermal_only"
                /\ v.status = "unverified_no_imagery"
                /\ Occurrences(unverified, i) = 1
                /\ i \notin Positions(verified_fires)
                /\ i \notin Positions(false_alarms)

\* A hotspot above both thermal thresholds, without imagery: is_verified is
\* true and the hotspot is in unverified.
C2_Witness ==
    \E i \in 1..Len(imageryLog) :
        /\ imageryLog[i] = None
        /\ hotspots[i].confidence >= 80
        /\ hotspots[i].frp >= 20
        /\ hotspots[i].verification.is_verified
        /\ i \in Positions(unverified)

\* C3. A hotspot for which imagery was fetched and the detector returned is
\* decided by the detector's output alone: with at least one detection it
\* is verified (visual_confidence = mean of the detection confidences x 100,
\* method thermal_and_visual, status verified_wildfire, in verified_fires);
\* with none it is rejected (visual_confidence = 0, method visual_rejected,
\* status false_alarm_rejected, in false_alarms), for every thermal
\* confidence and frp.
C3_VisualDecisionByDetectorOnly ==
    \A i \in 1..Len(imageryLog) :
        (imageryLog[i] = Image /\ detectorLog[i].outcome = "returned") =>
            LET v == hotspots[i].verification
                d == detectorLog[i]
            IN  IF d.boxes >= 1
                THEN /\ v.is_verified = TRUE
                     \* confidences are hundredths: mean x 100 is conf_sum / boxes
                     /\ v.visual_confidence.den > 0
                     /\ RatEq(v.visual_confidence, Rat(d.conf_sum, d.boxes))
                     /\ v.verification_method = "thermal_and_visual"
                     /\ v.status = "verified_wildfire"
                     /\ Occurrences(verified_fires, i) = 1
                     /\ i \notin Positions(false_alarms)
                     /\ i \notin Positions(unverified)
                ELSE /\ v.is_verified = FALSE
                     /\ v.visual_confidence.num = 0
                     /\ v.verification_method = "visual_rejected"
                     /\ v.status = "false_alarm_rejected"
                     /\ Occurrences(false_alarms, i) = 1
                     /\ i \notin Positions(verified_fires)
                     /\ i \notin Positions(unverified)

\* A hotspot below both thermal thresholds verified by one detection of
\* confidence 0.60 (visual_confidence 60), and another rejected for want
\* of detections.
C3_Witness ==
    /\ \E i \in 1..Len(detectorLog) :
          /\ imageryLog[i] = Image
          /\ detectorLog[i] = [outcome |-> "returned", boxes |-> 1, conf_sum |-> 60]
          /\ hotspots[i].confidence < 80
          /\ hotspots[i].frp < 20
          /\ RatEq(hotspots[i].verification.visual_confidence, Rat(60, 1))
          /\ i \in Positions(verified_fires)
    /\ \E i \in 1..Len(detectorLog) :
          /\ imageryLog[i] = Image
          /\ detectorLog[i].outcome = "returned"
          /\ detectorLog[i].boxes = 0
          /\ i \in Positions(false_alarms)

IsVideo == media.file_ext \in video_extensions

\* C4. On every way out of the detection stream (exhaustion, the consumer
\* closing it after some result, an error raised while a frame is
\* processed) the decode session the stream opened has been released.
C4_SessionReleasedOnEveryExit ==
    (gpc \in {"finished", "closed", "raised"} /\ cap # "none") => cap = "released"

\* C5. A video whose decoding fails mid-stream, after some frame has been
\* delivered, is never reported as a normal end of stream: the transport
\* sends no {done: true} record for it.
C5_DecodeFailureIsAnError ==
    (IsVideo /\ media.corrupt /\ media.frames >= 1) =>
        \A k \in 1..Len(events) : ~IsDone(events[k])

\* The results of an exhausted video stream, but for their progress: one per
\* decodable frame, numbered 1..N in order, each with the frame count probed
\* at the start and has_fire true exactly when the detector returned a box.
ExhaustedVideoResults ==
    /\ Len(produced) = media.frames
    /\ Len(frameLog) = media.frames
    /\ \A k \in 1..Len(produced) :
          /\ produced[k].frame = k
          /\ produced[k].total_frames = media.frame_count
          /\ frameLog[k].outcome = "returned"
          /\ produced[k].has_fire = (frameLog[k].boxes >= 1)
          /\ Len(produced[k].detections) = frameLog[k].boxes

\* C6 as stated: the above, and progress = frame / total_frames x 100 for
\* every result.
C6_ProgressIsFrameOverTotal ==
    (IsVideo /\ gpc = "finished") =>
        /\ ExhaustedVideoResults
        /\ \A k \in 1..Len(produced) :
              produced[k].progress.num * media.frame_count
                  = k * 100 * produced[k].progress.den

\* C6, amended. For a video with N decodable frames pulled until the stream
\* is exhausted, the stream yields exactly N results, numbered 1..N in
\* order, each with the total_frames probed at the start and has_fire true
\* exactly when the detector returned a detection for the frame; progress is
\* frame / total_frames x 100 when total_frames > 0, and 100 otherwise.
C6_ExhaustedVideoStream ==
    (IsVideo /\ gpc = "finished") =>
        /\ ExhaustedVideoResults
        /\ \A k \in 1..Len(produced) :
              IF media.frame_count > 0
              THEN /\ produced[k].progress.den > 0
                   /\ RatEq(produced[k].progress, Rat(k * 100, media.frame_count))
              ELSE RatEq(produced[k].progress, Rat(100, 1))

\* A video of three frames, probed as three, with a detection in the second
\* frame only, pulled to exhaustion.
C6_Witness ==
    /\ IsVideo
    /\ gpc = "finished"
    /\ media.frames = 3
    /\ media.frame_count = 3
    /\ Len(produced) = 3
    /\ ~produced[1].has_fire
    /\ produced[2].has_fire
    /\ ~produced[3].has_fire

\* C7. In a video stream every progress value lies in 0..100, progress never
\* decreases from one result to the next, and the last result of an
\* exhausted stream has progress 100, whatever frame count was probed and
\* however many frames decode (stated here for the videos that decode to
\* their end, without a failed read).
C7_ProgressWithinBoundsReaching100 ==
    (IsVideo /\ ~media.corrupt) =>
        /\ \A k \in 1..Len(produced) :
              /\ RatLeq(Rat(0, 1), produced[k].progress)
              /\ RatLeq(produced[k].progress, Rat(100, 1))
              /\ k > 1 => RatLeq(produced[k - 1].progress, produced[k].progress)
        /\ (gpc = "finished" /\ produced # <<>>) =>
              RatEq(produced[Len(produced)].progress, Rat(100, 1))

\* C8. For a file that is not a video the stream yields exactly one result,
\* with frame = 0, total_frames = 1, progress = 100 and has_fire true
\* exactly when the detector returned a detection.
C8_SingleImageResult ==
    (~IsVideo /\ gpc \in {"yield_image", "finished", "closed"}) =>
        /\ Len(produced) = 1
        /\ produced[1].frame = 0
        /\ produced[1].total_frames = 1
        /\ produced[1].has_fire = (frameLog[1].boxes >= 1)
        /\ "progress" \in DOMAIN produced[1]
        /\ RatEq(produced[1].progress, Rat(100, 1))

\* C9. The events the endpoint sends hold a terminal record ({done: true} or
\* {error: ...}) in the last place only, so at most one and never both and
\* no frame record after it; a fully consumed stream ends with one: done
\* when the generator was exhausted, error when it raised.
C9_ExactlyOneTerminalRecordLast ==
    /\ \A k \in 1..Len(events) :
          /\ IsTerminal(events[k]) => k = Len(events)
          /\ ~(IsDone(events[k]) /\ IsError(events[k]))
          /\ IsTerminal(events[k]) \/ IsFrame(events[k])
    /\ epc = "finished" =>
          /\ events # <<>>
          /\ IsTerminal(events[Len(events)])
          /\ IsDone(events[Len(events)]) <=> gpc = "finished"
          /\ IsError(events[Len(events)]) <=> gpc = "raised"

\* A stream consumed to its end that sent frame records and then the error
\* record.
C9_Witness ==
    /\ epc = "finished"
    /\ Len(events) >= 2
    /\ IsFrame(events[1])
    /\ IsError(events[Len(events)])

FrameEvents == Cardinality({k \in 1..Len(events) : IsFrame(events[k])})

\* C10. No frame is decoded or detected ahead of the consumer: at most one
\* frame beyond those whose result the client has received has been read,
\* every yielded result but the one in flight has been received, and while
\* the transport waits for the client to ask for the next event (or sleeps
\* before its next pull) the generator is not running and every frame read
\* so far has had its result delivered.
C10_OnDemandNoBuffering ==
    /\ frame_number <= FrameEvents + 1
    /\ Len(produced) <= FrameEvents + 1
    /\ Len(yielded) <= 1
    /\ epc \in {"unstarted", "yield_event", "sleep"} =>
          /\ gpc \notin {"loop", "frame"}
          /\ frame_number = (IF IsVideo THEN FrameEvents ELSE 0)
          /\ Len(produced) = FrameEvents
          /\ yielded = <<>>

\* The transport is suspended after delivering the second frame's result
\* while the video still holds a frame that has not been read.
C10_Witness ==
    /\ IsVideo
    /\ epc = "yield_event"
    /\ gpc = "yield_frame"
    /\ frame_number = 2
    /\ FrameEvents = 2
    /\ media.frames > frame_number

C12_DetectorFailureDoesNotEndStream ==
    (IsVideo /\ ~media.corrupt /\ frame_number < media.frames) =>
        \A k \in 1..Len(events) : ~IsError(events[k])

\* C13. The stats returned for a batch have total_hotspots = the length of
\* the input, and verification_rate = hotspots in verified_fires / input
\* hotspots x 100 for a non-empty input, 0 (and no division by zero) for an
\* empty one.
C13_VerificationRate ==
    vpc = "returned" =>
        /\ stats.total_hotspots = Len(hotspots)
        /\ stats.verification_rate.den > 0
        /\ IF Len(hotspots) > 0
           THEN stats.verification_rate.num * Len(hotspots)
                    = Len(verified_fires) * 100 * stats.verification_rate.den
           ELSE stats.verification_rate.num = 0

\* A batch of two hotspots of which one is verified, one left unverified:
\* the rate is 50.
C13_Witness ==
    /\ vpc = "returned"
    /\ Len(hotspots) = 2
    /\ Len(verified_fires) = 1
    /\ Len(unverified) = 1
    /\ RatEq(stats.verification_rate, Rat(50, 1))

IsIncreasing(list) ==
    \A a, b \in 1..Len(list) : a < b => list[a] < list[b]

\* C16. Within each of verified_fires, false_alarms and unverified the
\* hotspots are in the order of the input list: of two hotspots of one list,
\* the one earlier in the input comes first.
C16_ListsKeepInputOrder ==
    /\ IsIncreasing(verified_fires)
    /\ IsIncreasing(false_alarms)
    /\ IsIncreasing(unverified)

\* A returned batch with two hotspots in one list.
C16_Witness ==
    /\ vpc = "returned"
    /\ Len(verified_fires) >= 2
    /\ verified_fires[1] < verified_fires[2]

KeptRows == SelectSeq(df.rows, LAMBDA row : row.confidence >= MIN_CONFIDENCE
                                            /\ row.frp >= MIN_FRP)

\* C14. filter_fire_events keeps a row if and only if its confidence is at
\* least MIN_CONFIDENCE and its frp at least MIN_FRP: the alerts are the
\* records of exactly those rows, in the order of the input, each
\* satisfying both thresholds, and the input frame is left as it was.
C14_FilterKeepsExactlyRowsOverThresholds ==
    fpc \in {"filtered", "refiltered"} =>
        /\ alerts.error = "none"
        /\ Len(alerts.alerts) = Len(KeptRows)
        /\ \A k \in 1..Len(KeptRows) :
              /\ alerts.alerts[k].lat = KeptRows[k].latitude
              /\ alerts.alerts[k].lon = KeptRows[k].longitude
              /\ alerts.alerts[k].confidence = KeptRows[k].confidence
              /\ alerts.alerts[k].frp = KeptRows[k].frp
              /\ alerts.alerts[k].date = KeptRows[k].acq_date
              /\ alerts.alerts[k].time = KeptRows[k].acq_time
              /\ alerts.alerts[k].confidence >= MIN_CONFIDENCE
              /\ alerts.alerts[k].frp >= MIN_FRP
        /\ df.columns = FirmsColumns
        /\ \A k \in 1..Len(df.rows) : df.rows[k] \in FirmsRows

\* Two rows of which the first is dropped for its confidence and the second,
\* exactly at both thresholds, is kept.
C14_Witness ==
    /\ fpc = "filtered"
    /\ Len(df.rows) = 2
    /\ df.rows[1].confidence < MIN_CONFIDENCE
    /\ df.rows[2].confidence = MIN_CONFIDENCE
    /\ df.rows[2].frp = MIN_FRP
    /\ Len(alerts.alerts) = 1
    /\ alerts.alerts[1].lat = df.rows[2].latitude

Records(list) == {list[k] : k \in 1..Len(list)}

\* C15 as stated: filter_fire_events applied to its own output returns the
\* same set of records as the first application.
C15_FilterIsIdempotent ==
    fpc = "refiltered" =>
        /\ again.error = "none"
        /\ Records(again.alerts) = Records(alerts.alerts)

\* C15, amended. The threshold predicate is idempotent on the output: every
\* record filter_fire_events returns satisfies confidence >= MIN_CONFIDENCE
\* and frp >= MIN_FRP, so selecting from the output by the same two
\* thresholds keeps every record; filter_fire_events itself cannot be
\* applied to its output, whose records have the keys lat, lon, date and
\* time in place of the columns it reads, and raises when given it.
C15_ThresholdsIdempotentOnOutput ==
    /\ fpc \in {"filtered", "refiltered"} =>
          /\ \A k \in 1..Len(alerts.alerts) :
                /\ alerts.alerts[k].confidence >= MIN_CONFIDENCE
                /\ alerts.alerts[k].frp >= MIN_FRP
          /\ SelectSeq(alerts.alerts,
                       LAMBDA a : a.confidence >= MIN_CONFIDENCE
                                  /\ a.frp >= MIN_FRP) = alerts.alerts
    /\ fpc = "refiltered" => again.error = "KeyError"

\* A frame of which one row is dropped and one kept, filtered and then
\* filtered again.
C15_Witness ==
    /\ fpc = "refiltered"
    /\ Len(df.rows) = 2
    /\ Len(alerts.alerts) = 1
    /\ again.error = "KeyError"

\* C17. With the imagery fetch the program ships, verify_all_hotspots never
\* calls the detector (so no detector failure can end it), verified_fires
\* and false_alarms stay empty, every hotspot verified so far is in
\* unverified with status unverified_no_imagery and method thermal_only,
\* and the batch returned has every input hotspot in unverified and
\* verification_rate = 0.
C17_ShippedFetchLeavesAllUnverified ==
    /\ ~ENABLED VerifyHotspotRaises
    /\ vpc # "raised"
    /\ verified_fires = <<>>
    /\ false_alarms = <<>>
    /\ Len(imageryLog) = vi - 1
    /\ \A i \in 1..Len(imageryLog) :
          /\ imageryLog[i] = None
          /\ detectorLog[i].outcome = "not_called"
          /\ hotspots[i].verification.status = "unverified_no_imagery"
          /\ hotspots[i].verification.verification_method = "thermal_only"
    /\ unverified = [i \in 1..(vi - 1) |-> i]
    /\ vpc = "returned" =>
          /\ Len(unverified) = Len(hotspots)
          /\ stats.verified_fires = 0
          /\ stats.false_alarms_rejected = 0
          /\ stats.unverified = Len(hotspots)
          /\ stats.verification_rate.num = 0

\* A returned batch of three hotspots, one of them above both thermal
\* thresholds (is_verified true), all in unverified.
C17_Witness ==
    /\ vpc = "returned"
    /\ Len(hotspots) = 3
    /\ unverified = <<1, 2, 3>>
    /\ \E i \in 1..3 : hotspots[i].verification.is_verified

====
